---- MODULE Spec2Model ----
(***************************************************************************)
(* Model of src/ipcheck.py: check_network (ping + TCP probe) and           *)
(* check_pg_status (network gate, connect, role query, write probe,        *)
(* cleanup, exception handlers) run against one PostgreSQL server.         *)
(*                                                                         *)
(* Every call the code makes into the outside world (subprocess.run,       *)
(* socket, psycopg2) is one action whose outcome is chosen by the          *)
(* environment: success, a psycopg2.Error ("pg") or any other Exception    *)
(* ("other").  Python dictionaries are functions whose DOMAIN is the set   *)
(* of keys present; None and the tri-state db_connected are strings.       *)
(***************************************************************************)
EXTENDS Integers, Sequences, FiniteSets, TLC

VARIABLES
    pc,          \* position of the single thread of control
    net,         \* check_network's local dict `result`
    result,      \* check_pg_status's local dict `result`
    sock,        \* the probe socket: "none" | "open" | "closed"
    conn,        \* the psycopg2 connection: "none" | "open" | "closed"
    cursor,      \* the local name `cursor`: "unbound" | "open" | "closed"
    is_standby,  \* the local `is_standby` (value of pg_is_in_recovery())
    inserted_time, \* the local `inserted_time` (datetime returned by INSERT), -1 if unset
    exc,         \* exception in flight: "none" | "pg" | "other"
    calls,       \* how many times each external step was executed
    out,         \* outcome of the last execution of each external step
    inRecovery,  \* server: TRUE iff the instance is a standby
    now,         \* server: value of NOW(), in clock ticks
    tableExists, \* server: committed existence of table login
    rows,        \* server: committed rows of login (sequence of login_time)
    rows0,       \* server: the rows of login when the invocation started
    txCreate,    \* open transaction: CREATE TABLE executed, not yet committed
    txRows,      \* open transaction: rows inserted, not yet committed
    report,      \* __main__'s dict `result` built from the returned status
    stdout,      \* what the process has printed
    exit_status, \* process exit status, -1 while the process is running
    inv          \* concurrent invocations: per process, its position and locals

vars == <<pc, net, result, sock, conn, cursor, is_standby, inserted_time, exc,
          calls, out, inRecovery, now, tableExists, rows, rows0, txCreate, txRows,
          report, stdout, exit_status, inv>>

(* ------------------------------ bounds --------------------------------- *)
\* clock ticks per second (the source's datetime has 10^6 microseconds)
TicksPerSec == 2
\* largest server clock value, in ticks
MaxTime == 3
\* largest number of rows already in login before the invocation
MaxInitRows == 1
\* number of invocations running concurrently against one primary
NumProcs == 2
\* how often the server clock advances while the invocations run
MaxTicks == 1

(* --------------------------- helper values ----------------------------- *)
None == "None"

Steps == {"parse_args", "ping", "socket", "connect_ex", "sock_close",
          "connect", "cursor", "role_query", "create", "insert", "commit",
          "strftime", "cursor_close", "conn_close"}

\* d[k] = v  on a Python dict
Put(d, k, v) == [x \in (DOMAIN d) \cup {k} |-> IF x = k THEN v ELSE d[x]]

\* bookkeeping of one executed external step s with outcome o
Did(s, o) == /\ calls' = [calls EXCEPT ![s] = @ + 1]
             /\ out' = [out EXCEPT ![s] = o]

\* datetime.strftime("%Y-%m-%d %H:%M:%S"): the sub-second part is dropped;
\* the string is represented by the instant it denotes, in ticks
strftime(ts) == (ts \div TicksPerSec) * TicksPerSec

\* sequences over S of length at most n
RECURSIVE SeqsUpTo(_, _)
SeqsUpTo(S, n) ==
    IF n = 0 THEN {<< >>}
    ELSE LET shorter == SeqsUpTo(S, n - 1)
         IN  shorter \cup {Append(s, x) : s \in shorter, x \in S}

(* ------------------------------- Init ---------------------------------- *)
Init ==
    /\ pc = "parse_args"
    /\ report = << >>
    /\ stdout = [kind |-> "none"]
    /\ exit_status = -1
    /\ net = [ip_reachable |-> FALSE, port_open |-> FALSE]
    /\ result = [network_status |-> None, db_connected |-> None, error |-> None]
    /\ sock = "none"
    /\ conn = "none"
    /\ cursor = "unbound"
    /\ is_standby = FALSE
    /\ inserted_time = -1
    /\ exc = "none"
    /\ calls = [s \in Steps |-> 0]
    /\ out = [s \in Steps |-> "none"]
    /\ inRecovery \in BOOLEAN
    /\ now \in 0..MaxTime
    /\ tableExists \in BOOLEAN
    /\ rows \in SeqsUpTo(0..now, MaxInitRows)
    /\ (~tableExists => rows = << >>)
    /\ rows0 = rows
    /\ txCreate = FALSE
    /\ txRows = << >>
    /\ inv = << >>

srv == <<inRecovery, now, rows0>>
db == <<tableExists, rows>>
tx == <<txCreate, txRows>>
pgvars == <<result, conn, cursor, is_standby, inserted_time, exc>>
cli == <<report, stdout, exit_status>>

(* ------------------------- __main__: arguments ------------------------- *)
\* args = parser.parse_args() inside try / bare except: a usage error
\* (SystemExit from argparse) prints the help and calls exit(1)
ParseArgs ==
    /\ pc = "parse_args"
    /\ \E o \in {"ok", "usage_error"} :
         /\ Did("parse_args", o)
         /\ IF o = "ok"
              THEN pc' = "ping" /\ UNCHANGED <<stdout, exit_status>>
              ELSE /\ stdout' = [kind |-> "help"]
                   /\ exit_status' = 1
                   /\ pc' = "exited"
    /\ UNCHANGED <<net, sock, pgvars, report, inv, srv, db, tx>>

(* --------------------------- check_network ----------------------------- *)
\* Ping without the returncode test: reachable whenever ping ran to an exit
Ping_NoReturncodeCheck ==
    /\ pc = "ping"
    /\ \E o \in {"rc0", "rc_nonzero", "timeout", "exec_error"} :
         /\ Did("ping", o)
         /\ net' = IF o \in {"rc0", "rc_nonzero"}
                     THEN [net EXCEPT !.ip_reachable = TRUE] ELSE net
    /\ pc' = "socket"
    /\ UNCHANGED <<sock, pgvars, cli, inv, srv, db, tx>>

\* subprocess.run(['ping', ...], timeout=5) inside try/except Exception
Ping ==
    /\ pc = "ping"
    /\ \E o \in {"rc0", "rc_nonzero", "timeout", "exec_error"} :
         /\ Did("ping", o)
         /\ net' = IF o = "rc0" THEN [net EXCEPT !.ip_reachable = TRUE] ELSE net
    /\ pc' = "socket"
    /\ UNCHANGED <<sock, pgvars, cli, inv, srv, db, tx>>

\* TCP probe skipped when the ping already failed
Socket_SkipWhenUnreachable ==
    /\ pc = "socket"
    /\ IF ~net.ip_reachable
         THEN /\ pc' = "net_return"
              /\ UNCHANGED <<sock, calls, out>>
         ELSE \E o \in {"ok", "other"} :
                /\ Did("socket", o)
                /\ IF o = "ok"
                     THEN sock' = "open" /\ pc' = "connect_ex"
                     ELSE sock' = sock /\ pc' = "net_return"
    /\ UNCHANGED <<net, pgvars, cli, inv, srv, db, tx>>

\* socket.socket(...); sock.settimeout(5)
Socket ==
    /\ pc = "socket"
    /\ \E o \in {"ok", "other"} :
         /\ Did("socket", o)
         /\ IF o = "ok"
              THEN sock' = "open" /\ pc' = "connect_ex"
              ELSE sock' = sock /\ pc' = "net_return"
    /\ UNCHANGED <<net, pgvars, cli, inv, srv, db, tx>>

\* sock.connect_ex((ip, port)) == 0; a raise skips sock.close()
ConnectEx ==
    /\ pc = "connect_ex"
    /\ \E o \in {"zero", "errno", "other"} :
         /\ Did("connect_ex", o)
         /\ net' = IF o = "zero" THEN [net EXCEPT !.port_open = TRUE] ELSE net
         /\ pc' = IF o = "other" THEN "net_return" ELSE "sock_close"
    /\ UNCHANGED <<sock, pgvars, cli, inv, srv, db, tx>>

\* sock.close()
SockClose ==
    /\ pc = "sock_close"
    /\ \E o \in {"ok", "other"} :
         /\ Did("sock_close", o)
         /\ sock' = IF o = "ok" THEN "closed" ELSE sock
    /\ pc' = "net_return"
    /\ UNCHANGED <<net, pgvars, cli, inv, srv, db, tx>>

netvars == <<net, sock>>

(* -------------------------- check_pg_status ---------------------------- *)
\* Gate without the ip_reachable test (lines 82-84 dropped)
Gate_NoIpCheck ==
    /\ pc = "net_return"
    /\ LET r == Put(result, "network_status", net)
       IN  IF ~net.port_open
             THEN result' = Put(r, "error", "port_closed") /\ pc' = "return"
           ELSE result' = r /\ pc' = "connect"
    /\ UNCHANGED <<netvars, conn, cursor, is_standby, inserted_time, exc,
                   calls, out, cli, inv, srv, db, tx>>

\* Gate without the port_open test (lines 86-88 dropped)
Gate_NoPortCheck ==
    /\ pc = "net_return"
    /\ LET r == Put(result, "network_status", net)
       IN  IF ~net.ip_reachable
             THEN result' = Put(r, "error", "ip_unreachable") /\ pc' = "return"
           ELSE result' = r /\ pc' = "connect"
    /\ UNCHANGED <<netvars, conn, cursor, is_standby, inserted_time, exc,
                   calls, out, cli, inv, srv, db, tx>>

\* network_status = check_network(...); result['network_status'] = ...;
\* the two early returns on ip_reachable and port_open
Gate ==
    /\ pc = "net_return"
    /\ LET r == Put(result, "network_status", net)
       IN  IF ~net.ip_reachable
             THEN result' = Put(r, "error", "ip_unreachable") /\ pc' = "return"
           ELSE IF ~net.port_open
             THEN result' = Put(r, "error", "port_closed") /\ pc' = "return"
           ELSE result' = r /\ pc' = "connect"
    /\ UNCHANGED <<netvars, conn, cursor, is_standby, inserted_time, exc,
                   calls, out, cli, inv, srv, db, tx>>

\* conn = psycopg2.connect(..., connect_timeout=5); a raise is outside the
\* inner try, so it goes straight to the outer handlers
Connect ==
    /\ pc = "connect"
    /\ \E o \in {"ok", "pg", "other"} :
         /\ Did("connect", o)
         /\ IF o = "ok"
              THEN conn' = "open" /\ exc' = exc /\ pc' = "cursor"
              ELSE conn' = conn /\ exc' = o /\ pc' = "except"
    /\ UNCHANGED <<netvars, result, cursor, is_standby, inserted_time, cli, inv, srv, db, tx>>

\* cursor = conn.cursor(); a raise leaves the name `cursor` unbound
Cursor ==
    /\ pc = "cursor"
    /\ \E o \in {"ok", "pg", "other"} :
         /\ Did("cursor", o)
         /\ IF o = "ok"
              THEN cursor' = "open" /\ exc' = exc /\ pc' = "role_query"
              ELSE cursor' = cursor /\ exc' = o /\ pc' = "cursor_close"
    /\ UNCHANGED <<netvars, result, conn, is_standby, inserted_time, cli, inv, srv, db, tx>>

\* cursor.execute("SELECT pg_is_in_recovery()"); is_standby = cursor.fetchone()[0]
RoleQuery ==
    /\ pc = "role_query"
    /\ \E o \in {"ok", "pg", "other"} :
         /\ Did("role_query", o)
         /\ IF o = "ok"
              THEN is_standby' = inRecovery /\ exc' = exc /\ pc' = "branch"
              ELSE is_standby' = is_standby /\ exc' = o /\ pc' = "cursor_close"
    /\ UNCHANGED <<netvars, result, conn, cursor, inserted_time, cli, inv, srv, db, tx>>

\* Branch that runs the write probe whatever the role
Branch_AlwaysWrite ==
    /\ pc = "branch"
    /\ result' = result /\ pc' = "create"
    /\ UNCHANGED <<netvars, conn, cursor, is_standby, inserted_time, exc,
                   calls, out, cli, inv, srv, db, tx>>

\* if not is_standby: (write probe) else: db_connected = True, is_standby = True
Branch ==
    /\ pc = "branch"
    /\ IF ~is_standby
         THEN result' = result /\ pc' = "create"
         ELSE /\ result' = Put(Put(result, "db_connected", "True"), "is_standby", TRUE)
              /\ pc' = "cursor_close"
    /\ UNCHANGED <<netvars, conn, cursor, is_standby, inserted_time, exc,
                   calls, out, cli, inv, srv, db, tx>>

\* where a raise inside the innermost try goes: psycopg2.Error to its
\* except clause, anything else to the finally clause
WriteRaise(o) == /\ exc' = (IF o = "pg" THEN exc ELSE o)
                 /\ pc' = (IF o = "pg" THEN "except_write" ELSE "cursor_close")

\* CREATE TABLE whose failure is swallowed, so the INSERT still runs
CreateTable_IgnoreError ==
    /\ pc = "create"
    /\ \E o \in {"ok", "pg", "other"} :
         /\ Did("create", o)
         /\ txCreate' = (IF o = "ok" THEN ~tableExists ELSE txCreate)
         /\ exc' = exc /\ pc' = "insert"
    /\ UNCHANGED <<netvars, result, conn, cursor, is_standby, inserted_time,
                   cli, inv, srv, db, txRows>>

\* plain CREATE TABLE login (...): an existing table is an error
CreateStmt_Plain(exists) == [error |-> exists, creates |-> ~exists]

\* the statement CREATE TABLE IF NOT EXISTS login (...) as the server
\* executes it: a no-op when the table exists, never a duplicate-table error
CreateStmt(exists) == [error |-> FALSE, creates |-> ~exists]

\* cursor.execute("CREATE TABLE IF NOT EXISTS login (...)"); o is what the
\* environment does to the call, the statement itself decides the rest
CreateTable ==
    /\ pc = "create"
    /\ \E o \in {"ok", "pg", "other"} :
         LET stmt == CreateStmt(tableExists \/ txCreate)
             res == IF o = "ok" /\ stmt.error THEN "duplicate_table" ELSE o
         IN  /\ Did("create", res)
             /\ IF res = "ok"
                  THEN /\ txCreate' = (txCreate \/ stmt.creates)
                       /\ exc' = exc /\ pc' = "insert"
                  ELSE /\ txCreate' = txCreate
                       /\ WriteRaise(IF res = "duplicate_table" THEN "pg" ELSE res)
    /\ UNCHANGED <<netvars, result, conn, cursor, is_standby, inserted_time,
                   cli, inv, srv, db, txRows>>

\* cursor.execute("INSERT ... VALUES (NOW()) RETURNING login_time");
\* inserted_time = cursor.fetchone()[0]
Insert ==
    /\ pc = "insert"
    /\ \E o \in {"ok", "pg", "other"} :
         /\ Did("insert", o)
         /\ IF o = "ok"
              THEN /\ txRows' = Append(txRows, now)
                   /\ inserted_time' = now
                   /\ exc' = exc /\ pc' = "commit"
              ELSE /\ txRows' = txRows /\ inserted_time' = inserted_time
                   /\ WriteRaise(o)
    /\ UNCHANGED <<netvars, result, conn, cursor, is_standby, cli, inv, srv, db, txCreate>>

\* Commit that does not make the transaction durable (conn.commit() missing)
Commit_NotDurable ==
    /\ pc = "commit"
    /\ \E o \in {"ok", "pg", "other"} :
         /\ Did("commit", o)
         /\ IF o = "ok"
              THEN exc' = exc /\ pc' = "set_result"
              ELSE WriteRaise(o)
    /\ UNCHANGED <<netvars, result, conn, cursor, is_standby, inserted_time,
                   cli, inv, srv, db, tx>>

\* conn.commit()
Commit ==
    /\ pc = "commit"
    /\ \E o \in {"ok", "pg", "other"} :
         /\ Did("commit", o)
         /\ IF o = "ok"
              THEN /\ tableExists' = (tableExists \/ txCreate)
                   /\ rows' = rows \o txRows
                   /\ txCreate' = FALSE /\ txRows' = << >>
                   /\ exc' = exc /\ pc' = "set_result"
              ELSE UNCHANGED <<db, tx>> /\ WriteRaise(o)
    /\ UNCHANGED <<netvars, result, conn, cursor, is_standby, inserted_time, cli, inv, srv>>

\* SetResult that forgets result['inserted_time']
SetResult_NoInsertedTime ==
    /\ pc = "set_result"
    /\ \E o \in {"ok", "other"} :
         /\ Did("strftime", o)
         /\ LET r == Put(result, "db_connected", "True")
            IN  IF o = "ok"
                  THEN result' = Put(r, "is_standby", FALSE) /\ exc' = exc
                  ELSE result' = r /\ exc' = o
    /\ pc' = "cursor_close"
    /\ UNCHANGED <<netvars, conn, cursor, is_standby, inserted_time, cli, inv, srv, db, tx>>

\* result['db_connected'] = True;
\* result['inserted_time'] = inserted_time.strftime(...); result['is_standby'] = False
SetResult ==
    /\ pc = "set_result"
    /\ \E o \in {"ok", "other"} :
         /\ Did("strftime", o)
         /\ LET r == Put(result, "db_connected", "True")
            IN  IF o = "ok"
                  THEN /\ result' = Put(Put(r, "inserted_time", strftime(inserted_time)),
                                        "is_standby", FALSE)
                       /\ exc' = exc
                  ELSE result' = r /\ exc' = o
    /\ pc' = "cursor_close"
    /\ UNCHANGED <<netvars, conn, cursor, is_standby, inserted_time, cli, inv, srv, db, tx>>

\* except PG_Error as e: (innermost) db_connected = False, write-probe error
ExceptWrite ==
    /\ pc = "except_write"
    /\ result' = Put(Put(result, "db_connected", "False"), "error", "write_probe_failed")
    /\ pc' = "cursor_close"
    /\ UNCHANGED <<netvars, conn, cursor, is_standby, inserted_time, exc,
                   calls, out, cli, inv, srv, db, tx>>

\* finally: cursor.close() -- reading an unbound `cursor` raises
\* UnboundLocalError; any raise here replaces the exception in flight and
\* skips conn.close()
CursorClose ==
    /\ pc = "cursor_close"
    /\ IF cursor = "unbound"
         THEN /\ out' = [out EXCEPT !["cursor_close"] = "unbound"]
              /\ calls' = calls
              /\ cursor' = cursor /\ exc' = "other" /\ pc' = "except"
         ELSE \E o \in {"ok", "pg", "other"} :
                /\ Did("cursor_close", o)
                /\ IF o = "ok"
                     THEN cursor' = "closed" /\ exc' = exc /\ pc' = "conn_close"
                     ELSE cursor' = cursor /\ exc' = o /\ pc' = "except"
    /\ UNCHANGED <<netvars, result, conn, is_standby, inserted_time, cli, inv, srv, db, tx>>

\* finally: conn.close() -- closing discards the open transaction; a close
\* that raises may or may not have released the connection
ConnClose ==
    /\ pc = "conn_close"
    /\ \E o \in {"ok", "pg", "other"} :
         /\ Did("conn_close", o)
         /\ IF o = "ok"
              THEN /\ conn' = "closed"
                   /\ txCreate' = FALSE /\ txRows' = << >>
                   /\ exc' = exc
                   /\ pc' = (IF exc = "none" THEN "return" ELSE "except")
              ELSE /\ \E c \in {"open", "closed"} :
                        /\ conn' = c
                        /\ txCreate' = (IF c = "closed" THEN FALSE ELSE txCreate)
                        /\ txRows' = (IF c = "closed" THEN << >> ELSE txRows)
                   /\ exc' = o /\ pc' = "except"
    /\ UNCHANGED <<netvars, result, cursor, is_standby, inserted_time, cli, inv, srv, db>>

\* outer handlers without the `except Exception` clause
ExceptOuter_PgOnly ==
    /\ pc = "except"
    /\ CASE exc = "pg" ->
              /\ result' = Put(Put(result, "db_connected", "False"),
                               "error", "connection_failed")
              /\ pc' = "return"
         [] OTHER -> result' = result /\ pc' = "raised"
    /\ exc' = "none"
    /\ UNCHANGED <<netvars, conn, cursor, is_standby, inserted_time,
                   calls, out, cli, inv, srv, db, tx>>

\* outer handlers that set error but leave db_connected as it was
ExceptOuter_KeepFlag ==
    /\ pc = "except"
    /\ CASE exc = "pg" ->
              /\ result' = Put(result, "error", "connection_failed")
              /\ pc' = "return"
         [] exc = "other" ->
              /\ result' = Put(result, "error", "unknown_error")
              /\ pc' = "return"
         [] OTHER -> result' = result /\ pc' = "raised"
    /\ exc' = "none"
    /\ UNCHANGED <<netvars, conn, cursor, is_standby, inserted_time,
                   calls, out, cli, inv, srv, db, tx>>

\* except PG_Error as e: ... except Exception as e: ... (outer try)
ExceptOuter ==
    /\ pc = "except"
    /\ CASE exc = "pg" ->
              /\ result' = Put(Put(result, "db_connected", "False"),
                               "error", "connection_failed")
              /\ pc' = "return"
         [] exc = "other" ->
              /\ result' = Put(Put(result, "db_connected", None),
                               "error", "unknown_error")
              /\ pc' = "return"
         [] OTHER -> result' = result /\ pc' = "raised"
    /\ exc' = "none"
    /\ UNCHANGED <<netvars, conn, cursor, is_standby, inserted_time,
                   calls, out, cli, inv, srv, db, tx>>

\* return result
Return ==
    /\ pc = "return"
    /\ pc' = "done"
    /\ UNCHANGED <<netvars, pgvars, calls, out, cli, inv, srv, db, tx>>

(* -------------------------- __main__: report --------------------------- *)
\* status.get('is_standby', False)
GetIsStandby(status) ==
    IF "is_standby" \in DOMAIN status THEN status.is_standby ELSE FALSE

\* result = {...}; result["inserted_time"] = status['inserted_time'] when
\* db_connected is True and not standby -- a missing key is a KeyError,
\* which nothing catches: traceback, exit status 1
BuildReport ==
    /\ pc = "done"
    /\ LET r == [status |-> IF result.db_connected = "True"
                              THEN "success" ELSE "failed",
                 is_standby |-> GetIsStandby(result),
                 network_status |-> result.network_status,
                 error |-> result.error]
       IN  IF result.db_connected = "True" /\ ~GetIsStandby(result)
             THEN IF "inserted_time" \in DOMAIN result
                    THEN /\ report' = Put(r, "inserted_time", result.inserted_time)
                         /\ pc' = "print"
                         /\ UNCHANGED <<stdout, exit_status>>
                    ELSE /\ report' = r
                         /\ stdout' = [kind |-> "traceback"]
                         /\ exit_status' = 1
                         /\ pc' = "exited"
             ELSE /\ report' = r
                  /\ pc' = "print"
                  /\ UNCHANGED <<stdout, exit_status>>
    /\ UNCHANGED <<netvars, pgvars, calls, out, inv, srv, db, tx>>

\* PrintReport that signals a failed health check through the exit status
PrintReport_ExitOnFailure ==
    /\ pc = "print"
    /\ stdout' = [kind |-> "report",
                  connected |-> (report.status = "success"),
                  standby |-> report.is_standby,
                  ip_reachable |-> report.network_status.ip_reachable,
                  port_open |-> report.network_status.port_open,
                  inserted_line |-> ("inserted_time" \in DOMAIN report),
                  error_line |-> (report.error # None)]
    /\ exit_status' = (IF report.status = "success" THEN 0 ELSE 1)
    /\ pc' = "exited"
    /\ UNCHANGED <<netvars, pgvars, report, calls, out, inv, srv, db, tx>>

\* the print calls of lines 173-184, then the script ends: exit status 0
PrintReport ==
    /\ pc = "print"
    /\ stdout' = [kind |-> "report",
                  connected |-> (report.status = "success"),
                  standby |-> report.is_standby,
                  ip_reachable |-> report.network_status.ip_reachable,
                  port_open |-> report.network_status.port_open,
                  inserted_line |-> ("inserted_time" \in DOMAIN report),
                  error_line |-> (report.error # None)]
    /\ exit_status' = 0
    /\ pc' = "exited"
    /\ UNCHANGED <<netvars, pgvars, report, calls, out, inv, srv, db, tx>>

(* ------------- concurrent invocations against one primary -------------- *)
(* Each process runs lines 106-136 of check_pg_status on its own           *)
(* connection (gate passed, connected, role query answered "primary");     *)
(* the processes share only the server: table login and the clock.         *)
Procs == 1..NumProcs

InitConc ==
    /\ pc = "concurrent"
    /\ report = << >>
    /\ stdout = [kind |-> "none"]
    /\ exit_status = -1
    /\ net = [ip_reachable |-> TRUE, port_open |-> TRUE]
    /\ result = [network_status |-> None, db_connected |-> None, error |-> None]
    /\ sock = "none"
    /\ conn = "none"
    /\ cursor = "unbound"
    /\ is_standby = FALSE
    /\ inserted_time = -1
    /\ exc = "none"
    /\ calls = [s \in Steps |-> 0]
    /\ out = [s \in Steps |-> "none"]
    /\ inRecovery = FALSE
    /\ now = 0
    /\ tableExists \in BOOLEAN
    /\ rows \in SeqsUpTo(0..now, MaxInitRows)
    /\ (~tableExists => rows = << >>)
    /\ rows0 = rows
    /\ txCreate = FALSE
    /\ txRows = << >>
    /\ inv = [p \in Procs |->
                [pc |-> "create",
                 all_ok |-> TRUE,      \* no step has raised so far
                 committed |-> FALSE,  \* conn.commit() has returned
                 txCreate |-> FALSE,
                 txRows |-> << >>,
                 inserted_time |-> -1,
                 exc |-> "none",
                 result |-> [network_status |-> net, db_connected |-> None,
                             error |-> None]]]

seqvars == <<pc, net, result, sock, conn, cursor, is_standby, inserted_time, exc,
             calls, out, inRecovery, rows0, txCreate, txRows, cli>>

\* where a raise inside the innermost try goes (as WriteRaise), per process
WRaise(l, o) ==
    [l EXCEPT !.all_ok = FALSE,
              !.exc = (IF o = "pg" THEN l.exc ELSE o),
              !.pc = (IF o = "pg" THEN "except_write" ELSE "finally")]

\* the server clock advances between the steps of the processes
Tick ==
    /\ pc = "concurrent"
    /\ now < MaxTicks
    /\ now' = now + 1
    /\ UNCHANGED <<seqvars, inv, db>>

\* CREATE TABLE IF NOT EXISTS login: the server makes the statement wait
\* while another open transaction holds an uncommitted CREATE of the table
WCreate(p) ==
    /\ pc = "concurrent"
    /\ inv[p].pc = "create"
    /\ \A q \in Procs \ {p} : ~inv[q].txCreate
    /\ \E o \in {"ok", "pg", "other"} :
         LET l == inv[p]
             stmt == CreateStmt(tableExists \/ l.txCreate)
             res == IF o = "ok" /\ stmt.error THEN "pg" ELSE o
         IN  inv' = [inv EXCEPT ![p] =
                       IF res = "ok"
                         THEN [l EXCEPT !.txCreate = (l.txCreate \/ stmt.creates),
                                        !.pc = "insert"]
                         ELSE WRaise(l, res)]
    /\ UNCHANGED <<seqvars, now, db>>

\* INSERT INTO login VALUES (NOW()) RETURNING login_time; fetchone()[0]
WInsert(p) ==
    /\ pc = "concurrent"
    /\ inv[p].pc = "insert"
    /\ \E o \in {"ok", "pg", "other"} :
         LET l == inv[p]
         IN  inv' = [inv EXCEPT ![p] =
                       IF o = "ok"
                         THEN [l EXCEPT !.txRows = Append(l.txRows, now),
                                        !.inserted_time = now,
                                        !.pc = "commit"]
                         ELSE WRaise(l, o)]
    /\ UNCHANGED <<seqvars, now, db>>

\* commit that writes back the table as the invocation first saw it plus
\* its own row (rows committed by others in between are lost)
WCommit_FromSnapshot(p) ==
    /\ pc = "concurrent"
    /\ inv[p].pc = "commit"
    /\ \E o \in {"ok", "pg", "other"} :
         LET l == inv[p]
         IN  IF o = "ok"
               THEN /\ tableExists' = (tableExists \/ l.txCreate)
                    /\ rows' = rows0 \o l.txRows
                    /\ inv' = [inv EXCEPT ![p] =
                                 [l EXCEPT !.committed = TRUE,
                                           !.txCreate = FALSE,
                                           !.txRows = << >>,
                                           !.pc = "set_result"]]
               ELSE /\ inv' = [inv EXCEPT ![p] = WRaise(l, o)]
                    /\ UNCHANGED db
    /\ UNCHANGED <<seqvars, now>>

\* conn.commit(): the rows of the transaction are appended to the table
WCommit(p) ==
    /\ pc = "concurrent"
    /\ inv[p].pc = "commit"
    /\ \E o \in {"ok", "pg", "other"} :
         LET l == inv[p]
         IN  IF o = "ok"
               THEN /\ tableExists' = (tableExists \/ l.txCreate)
                    /\ rows' = rows \o l.txRows
                    /\ inv' = [inv EXCEPT ![p] =
                                 [l EXCEPT !.committed = TRUE,
                                           !.txCreate = FALSE,
                                           !.txRows = << >>,
                                           !.pc = "set_result"]]
               ELSE /\ inv' = [inv EXCEPT ![p] = WRaise(l, o)]
                    /\ UNCHANGED db
    /\ UNCHANGED <<seqvars, now>>

\* lines 117-119, as SetResult
WSetResult(p) ==
    /\ pc = "concurrent"
    /\ inv[p].pc = "set_result"
    /\ \E o \in {"ok", "other"} :
         LET l == inv[p]
             r == Put(l.result, "db_connected", "True")
         IN  inv' = [inv EXCEPT ![p] =
                       IF o = "ok"
                         THEN [l EXCEPT !.result = Put(Put(r, "inserted_time",
                                                           strftime(l.inserted_time)),
                                                       "is_standby", FALSE),
                                        !.pc = "finally"]
                         ELSE [l EXCEPT !.all_ok = FALSE,
                                        !.result = r,
                                        !.exc = o,
                                        !.pc = "finally"]]
    /\ UNCHANGED <<seqvars, now, db>>

\* lines 120-122, as ExceptWrite
WExceptWrite(p) ==
    /\ pc = "concurrent"
    /\ inv[p].pc = "except_write"
    /\ inv' = [inv EXCEPT ![p] =
                 [inv[p] EXCEPT !.result = Put(Put(inv[p].result, "db_connected", "False"),
                                               "error", "write_probe_failed"),
                                !.pc = "finally"]]
    /\ UNCHANGED <<seqvars, now, db>>

\* lines 126-136: cursor.close(); conn.close() (a raise replaces the
\* exception in flight), the outer handlers, return; the open transaction
\* is discarded with the connection
WFinally(p) ==
    /\ pc = "concurrent"
    /\ inv[p].pc = "finally"
    /\ \E o \in {"ok", "pg", "other"} :
         LET l == inv[p]
             e == IF o = "ok" THEN l.exc ELSE o
             r == CASE e = "pg" -> Put(Put(l.result, "db_connected", "False"),
                                       "error", "connection_failed")
                    [] e = "other" -> Put(Put(l.result, "db_connected", None),
                                          "error", "unknown_error")
                    [] OTHER -> l.result
         IN  inv' = [inv EXCEPT ![p] =
                       [l EXCEPT !.all_ok = (l.all_ok /\ o = "ok"),
                                 !.exc = "none",
                                 !.result = r,
                                 !.txCreate = FALSE,
                                 !.txRows = << >>,
                                 !.pc = "done"]]
    /\ UNCHANGED <<seqvars, now, db>>

NextConc ==
    \/ Tick
    \/ \E p \in Procs : WCreate(p)
    \/ \E p \in Procs : WInsert(p)
    \/ \E p \in Procs : WCommit(p)
    \/ \E p \in Procs : WSetResult(p)
    \/ \E p \in Procs : WExceptWrite(p)
    \/ \E p \in Procs : WFinally(p)

SpecConc == InitConc /\ [][NextConc]_vars

(* ============================ properties =============================== *)
Returned == pc = "done"
Has(k) == k \in DOMAIN result
IpFailed == calls["ping"] > 0 /\ ~net.ip_reachable
GatePassed == pc \notin {"ping", "socket", "connect_ex", "sock_close", "net_return"}
              /\ net.ip_reachable /\ net.port_open
StandbyReported == out["connect"] = "ok" /\ out["role_query"] = "ok" /\ is_standby
PrimaryReported == out["connect"] = "ok" /\ out["role_query"] = "ok" /\ ~is_standby
WriteCalls == calls["create"] + calls["insert"] + calls["commit"]
WriteSucceeded == out["create"] = "ok" /\ out["insert"] = "ok" /\ out["commit"] = "ok"
WriteRaisedPg == out["create"] = "pg" \/ out["insert"] = "pg" \/ out["commit"] = "pg"
ClosedCleanly == out["cursor_close"] = "ok" /\ out["conn_close"] = "ok"
DbSteps == {"connect", "cursor", "role_query", "create", "insert", "commit",
            "strftime", "cursor_close", "conn_close"}
SomeStepFailed == \/ ~net.ip_reachable
                  \/ ~net.port_open
                  \/ \E s \in DbSteps : out[s] \notin {"none", "ok"}

\* C1: when the ping fails, psycopg2.connect is never called during the
\* invocation, whatever port_open is, and the returned result has
\* db_connected = None, network_status.ip_reachable = False and an error.
C1_UnreachableShortCircuits ==
    IpFailed =>
        /\ calls["connect"] = 0
        /\ conn = "none"
        /\ Returned => /\ result.db_connected = None
                       /\ ~result.network_status.ip_reachable
                       /\ result.error # None
C1_Witness == Returned /\ IpFailed /\ net.port_open

\* C2: when the host is reachable but the TCP probe fails, psycopg2.connect
\* is never called, and the returned result has port_open = False,
\* db_connected = None and the port-not-open error.
C2_PortClosedShortCircuits ==
    (pc \notin {"ping", "socket", "connect_ex", "sock_close"}
       /\ net.ip_reachable /\ ~net.port_open) =>
        /\ calls["connect"] = 0
        /\ conn = "none"
        /\ Returned => /\ ~result.network_status.port_open
                       /\ result.db_connected = None
                       /\ result.error = "port_closed"
C2_Witness == Returned /\ net.ip_reachable /\ ~net.port_open
              /\ out["connect_ex"] = "errno"

\* C3 as stated: gate passed, connect succeeded and the role query reported
\* standby imply db_connected = True, is_standby = True and zero write calls.
C3_Original ==
    (Returned /\ GatePassed /\ StandbyReported) =>
        /\ result.db_connected = "True"
        /\ Has("is_standby") /\ result.is_standby
        /\ WriteCalls = 0
\* C3 amended: once the role query has reported standby, no CREATE, INSERT
\* or commit is ever executed; the returned result has is_standby = True,
\* and db_connected = True exactly when cursor.close() and conn.close()
\* both returned without raising.
C3_StandbyNoWrites ==
    (GatePassed /\ StandbyReported) =>
        /\ WriteCalls = 0
        /\ rows = rows0
        /\ Returned => /\ Has("is_standby") /\ result.is_standby
                       /\ (result.db_connected = "True") <=> ClosedCleanly
C3_Witness == Returned /\ GatePassed /\ StandbyReported
              /\ result.db_connected = "True" /\ result.is_standby

\* C4 as stated: create, insert and commit all succeeded imply
\* db_connected = True, is_standby = False, error unset, inserted_time equal
\* to the timestamp the server returned, and exactly one row committed.
C4_Original ==
    (Returned /\ GatePassed /\ PrimaryReported /\ WriteSucceeded) =>
        /\ result.db_connected = "True"
        /\ Has("is_standby") /\ ~result.is_standby
        /\ result.error = None
        /\ Has("inserted_time") /\ result.inserted_time = inserted_time
        /\ rows = Append(rows0, inserted_time)
\* C4 amended: when create, insert and commit all succeeded, exactly one row
\* carrying the server's NOW() has been committed; db_connected = True
\* exactly when the timestamp formatting, cursor.close() and conn.close()
\* also succeeded, and then is_standby = False, error is unset and
\* inserted_time is the server-returned timestamp truncated to whole seconds.
C4_WriteProbeSucceeds ==
    (Returned /\ GatePassed /\ PrimaryReported /\ WriteSucceeded) =>
        /\ inserted_time = now
        /\ rows = Append(rows0, inserted_time)
        /\ (result.db_connected = "True") <=>
               (out["strftime"] = "ok" /\ ClosedCleanly)
        /\ result.db_connected = "True" =>
               /\ Has("is_standby") /\ ~result.is_standby
               /\ result.error = None
               /\ Has("inserted_time")
               /\ result.inserted_time = inserted_time - (inserted_time % TicksPerSec)
C4_Witness == Returned /\ GatePassed /\ PrimaryReported /\ WriteSucceeded
              /\ result.db_connected = "True"
              /\ result.inserted_time # inserted_time
              /\ Len(rows0) = 1 /\ Len(rows) = 2

\* C5: on a primary, when create, insert or commit raises a database error,
\* the returned result has db_connected = False with the write-probe error,
\* no inserted_time, and the connection has been released.
C5_WriteProbeFailure ==
    (Returned /\ PrimaryReported /\ WriteRaisedPg) =>
        /\ result.db_connected = "False"
        /\ result.error = "write_probe_failed"
        /\ ~Has("inserted_time")
        /\ conn = "closed"

\* C6: once psycopg2.connect has returned a connection, when check_pg_status
\* returns the connection is closed and no opened cursor is left open.
C6_CleanupOnEveryPath ==
    (Returned /\ out["connect"] = "ok") =>
        /\ conn = "closed"
        /\ cursor # "open"

\* C7: no exception escapes check_pg_status, and the returned result has
\* error set whenever the probe reported a failure or any database step
\* (connect .. conn.close()) raised.
C7_NoExceptionEscapes ==
    /\ pc # "raised"
    /\ Returned => (SomeStepFailed => result.error # None)
C7_Witness == Returned /\ out["insert"] = "pg" /\ out["cursor_close"] = "other"
              /\ result.error # None

\* C8: check_network never raises; ip_reachable is True exactly when ping
\* exited with status 0 and port_open is True exactly when connect_ex
\* returned 0; every other ping or TCP outcome leaves them False.
C8_ProbeReportsOutcome ==
    /\ pc # "raised"
    /\ calls["ping"] > 0 => (net.ip_reachable <=> out["ping"] = "rc0")
    /\ pc \notin {"ping", "socket", "connect_ex"} =>
           (net.port_open <=> out["connect_ex"] = "zero")
C8_Witness == pc = "net_return" /\ out["ping"] = "timeout"
              /\ out["connect_ex"] = "other" /\ ~net.ip_reachable /\ ~net.port_open

\* C9: in every returned result, inserted_time is present only if
\* db_connected = True, is_standby = False and the write probe succeeded.
C9_InsertedTimeOnlyOnSuccess ==
    (Returned /\ Has("inserted_time")) =>
        /\ result.db_connected = "True"
        /\ Has("is_standby") /\ ~result.is_standby
        /\ WriteSucceeded

\* C10: once an error has been recorded in the result, no later step
\* changes the error or the db_connected value recorded with it.
C10_FirstErrorKept ==
    [][result.error # None =>
          /\ result'.error = result.error
          /\ result'.db_connected = result.db_connected]_vars

InProbe == pc \in {"ping", "socket", "connect_ex", "sock_close"}
NotStarted == pc = "parse_args" \/ out["parse_args"] = "usage_error"

\* C11: when the gate passes and connect raises a driver error, the result
\* is db_connected = False with the connection-failed error and no cursor,
\* query or write is attempted; when any step from connect onward raises a
\* non-driver exception, the result is db_connected = None with the
\* unexpected-error message.
C11_ConnectFailureAndUnexpected ==
    Returned =>
        /\ out["connect"] = "pg" =>
               /\ result.db_connected = "False"
               /\ result.error = "connection_failed"
               /\ calls["cursor"] = 0 /\ calls["role_query"] = 0 /\ WriteCalls = 0
        /\ (\E s \in DbSteps : out[s] = "other") =>
               /\ result.db_connected = None
               /\ result.error = "unknown_error"

\* position of each external step in the source's order
Rank == [parse_args |-> 0, ping |-> 1, socket |-> 2, connect_ex |-> 3, sock_close |-> 4,
         connect |-> 5, cursor |-> 6, role_query |-> 7, create |-> 8,
         insert |-> 9, commit |-> 10, strftime |-> 11, cursor_close |-> 12,
         conn_close |-> 13]
ShortCircuited ==
    /\ calls["connect"] > 0 => out["ping"] = "rc0" /\ out["connect_ex"] = "zero"
    /\ calls["role_query"] > 0 => out["connect"] = "ok"
    /\ calls["create"] > 0 => out["role_query"] = "ok" /\ ~is_standby
    /\ calls["insert"] > 0 => out["create"] = "ok"
    /\ calls["commit"] > 0 => out["create"] = "ok" /\ out["insert"] = "ok"
InSourceOrder ==
    \A s \in Steps : calls'[s] > calls[s] =>
        \A t \in Steps : Rank[t] >= Rank[s] => calls[t] = 0

\* C13: the steps run in the order ping, TCP probe, connect, role query,
\* create, insert, commit; a step runs only after the steps it depends on
\* succeeded (connect after both probes, role query after connect,
\* create/insert after a non-standby role, commit after create and insert);
\* no step runs more than once.
C13_FixedOrderShortCircuit ==
    /\ [](ShortCircuited /\ \A s \in Steps : calls[s] <= 1)
    /\ [][InSourceOrder]_vars
C13_Witness == Returned /\ WriteSucceeded /\ out["role_query"] = "ok"
               /\ calls["ping"] = 1 /\ calls["commit"] = 1

\* C14: a connection-failed error is recorded only when psycopg2.connect
\* itself raised a driver error, and a write-probe-failed error only when
\* connect and the role query succeeded and create/insert/commit raised one.
C14_ErrorNamesFailedStage ==
    Returned =>
        /\ result.error = "connection_failed" => out["connect"] = "pg"
        /\ result.error = "write_probe_failed" =>
               /\ out["connect"] = "ok" /\ out["role_query"] = "ok"
               /\ WriteRaisedPg

\* C15: check_network runs the ping and then the TCP probe, each exactly
\* once, the TCP probe also when the ping failed or raised; port_open is
\* decided by connect_ex alone; the caller tests ip_reachable first, so an
\* unreachable host is reported as such whatever port_open is.
C15_BothProbesAlwaysRun ==
    /\ (~NotStarted /\ pc # "ping") => calls["ping"] = 1
    /\ (~NotStarted /\ pc \notin {"ping", "socket"}) => calls["socket"] = 1
    /\ calls["socket"] > 0 => calls["ping"] > 0
    /\ calls["connect_ex"] > 0 => out["socket"] = "ok"
    /\ ~InProbe => (net.port_open <=> out["connect_ex"] = "zero")
    /\ (Returned /\ ~net.ip_reachable) => result.error = "ip_unreachable"
C15_Witness == Returned /\ out["ping"] = "exec_error" /\ net.port_open
               /\ calls["socket"] = 1 /\ result.error = "ip_unreachable"

\* C16: each call of check_network runs one ping and at most one TCP
\* connect, and a socket that was opened is closed when check_network
\* returns, also when connect_ex returned an error code or raised.
C16_ProbeSocketClosed ==
    (~NotStarted /\ ~InProbe) =>
        /\ calls["ping"] = 1
        /\ calls["connect_ex"] <= 1
        /\ out["socket"] = "ok" => (calls["connect_ex"] = 1 /\ sock = "closed")

\* C19: in every returned result, db_connected = True if and only if
\* error is None.
C19_ConnectedIffNoError ==
    Returned => (result.db_connected = "True" <=> result.error = None)
C19_Witness == Returned /\ out["strftime"] = "other"
               /\ result.db_connected # "True" /\ result.error # None

\* C18: the schema-ensure step executed when table login already exists
\* raises no duplicate-table error, changes nothing in the schema and
\* leaves the rows of the table as they were.
C18_SchemaEnsureIdempotent ==
    [][(pc = "create" /\ tableExists) =>
          /\ out'["create"] # "duplicate_table"
          /\ tableExists' /\ ~txCreate'
          /\ rows' = rows /\ txRows' = txRows]_vars
C18_Witness == pc = "insert" /\ out["create"] = "ok" /\ tableExists
               /\ ~txCreate /\ Len(rows0) = 1 /\ rows = rows0

\* C12: a usage error exits with status 1 before any probe has run; every
\* other run prints the report and exits with status 0 whatever the health
\* check found, and the report shows the connection as successful exactly
\* when db_connected is True.
C12_ExitStatusFromParsingOnly ==
    /\ out["parse_args"] = "usage_error" =>
           /\ exit_status = 1 /\ stdout.kind = "help"
           /\ \A s \in Steps \ {"parse_args"} : calls[s] = 0
    /\ (out["parse_args"] # "usage_error" /\ pc # "exited") => exit_status = -1
    /\ (out["parse_args"] = "ok" /\ pc = "exited") =>
           /\ exit_status = 0
           /\ stdout.kind = "report"
           /\ stdout.connected <=> (result.db_connected = "True")
C12_Witness == pc = "exited" /\ exit_status = 0 /\ ~stdout.connected
               /\ result.db_connected = "False" /\ stdout.error_line

\* C20: in every returned result network_status holds ip_reachable and
\* port_open, db_connected = True implies that is_standby is present, and
\* inserted_time too when is_standby is False; the command line's read of
\* status['inserted_time'] never fails.
C20_KeysPresent ==
    /\ stdout.kind # "traceback"
    /\ (out["parse_args"] = "ok" /\ pc \in {"done", "print", "exited"}) =>
           /\ DOMAIN result.network_status = {"ip_reachable", "port_open"}
           /\ result.db_connected = "True" =>
                  /\ Has("is_standby")
                  /\ ~result.is_standby => Has("inserted_time")
C20_Witness == pc = "exited" /\ result.db_connected = "True"
               /\ ~result.is_standby /\ stdout.kind = "report"
               /\ stdout.inserted_line

AllOk(p) == inv[p].all_ok
Committed == {p \in Procs : inv[p].committed}
RowsOnlyAppended ==
    /\ Len(rows') >= Len(rows)
    /\ Len(rows') <= Len(rows) + 1
    /\ SubSeq(rows', 1, Len(rows)) = rows

\* C17: with the write probes of concurrent invocations interleaved in any
\* way, every invocation whose steps all succeeded reports
\* db_connected = True with its own inserted_time and no error, the table
\* only ever grows by appended rows, every committed invocation's row is in
\* the table, and the row count has grown by the number of committed
\* invocations.
C17_ConcurrentProbesDoNotConflict ==
    /\ [](/\ Len(rows) = Len(rows0) + Cardinality(Committed)
          /\ SubSeq(rows, 1, Len(rows0)) = rows0
          /\ \A p \in Committed :
                 \E i \in (Len(rows0) + 1)..Len(rows) : rows[i] = inv[p].inserted_time
          /\ \A p \in Procs : (inv[p].pc = "done" /\ AllOk(p)) =>
                 /\ inv[p].result.db_connected = "True"
                 /\ inv[p].result.error = None
                 /\ inv[p].result.inserted_time
                        = inv[p].inserted_time - (inv[p].inserted_time % TicksPerSec))
    /\ [][RowsOnlyAppended]_vars
C17_Witness == /\ \A p \in Procs : inv[p].pc = "done" /\ AllOk(p)
               /\ Len(rows) = Len(rows0) + NumProcs
               /\ inv[1].inserted_time # inv[2].inserted_time

Next ==
    \/ ParseArgs \/ BuildReport \/ PrintReport
    \/ Ping \/ Socket \/ ConnectEx \/ SockClose
    \/ Gate \/ Connect \/ Cursor \/ RoleQuery \/ Branch
    \/ CreateTable \/ Insert \/ Commit \/ SetResult \/ ExceptWrite
    \/ CursorClose \/ ConnClose \/ ExceptOuter \/ Return

Spec == Init /\ [][Next]_vars
====
